---- MODULE Spec2Model ----
(***************************************************************************)
(* A model of the FinStart API server (src/server.py): the simulation      *)
(* calculators with their history log, the progress record of the single   *)
(* implicit user, and the generated-lesson store.                          *)
(*                                                                         *)
(* Numbers.  The server computes in binary floating point.  Here every     *)
(* number is an exact rational <<n, d>> (d > 0, lowest terms), and         *)
(* round(x, 2) is round-half-even on the exact value.  The inputs are      *)
(* chosen so that every power the calculators take is rational.            *)
(*                                                                         *)
(* Storage.  A MongoDB collection is a sequence of documents.  find_one    *)
(* and update_one act on "the first document in natural order", an order   *)
(* the store does not promise to keep: when several documents match, the   *)
(* one acted on is any of them.  A single update_one (with or without      *)
(* upsert) is one atomic step.                                             *)
(***************************************************************************)
EXTENDS Integers, Sequences, FiniteSets, TLC

VARIABLES
    simulations,    \* db.simulations: the simulation history, oldest first
    simCall,        \* the last calculate_simulation call and its response
    simCalls,       \* how many calculate_simulation calls were made
    progress,       \* db.progress: the progress documents
    pending,        \* get_progress calls between their find_one and insert_one
    progCall,       \* the response of the last progress/quiz call
    calls,          \* the progress/quiz calls that have returned, in order
    lessons,        \* db.lessons: the lesson documents
    genCall,        \* the last generate_lesson call and its response
    now             \* the clock datetime.utcnow() reads

vars == <<simulations, simCall, simCalls, progress, pending, progCall, calls,
          lessons, genCall, now>>

simVars == <<simulations, simCall, simCalls>>
progVars == <<progress, pending, progCall, calls>>
lessonVars == <<lessons, genCall>>

(***************************************************************************)
(* Bounds of the model.                                                    *)
(***************************************************************************)
MaxHalfYears == 3       \* time inputs are 0, 1/2, ..., MaxHalfYears/2 years
MaxPeriods == 6         \* compounding periods in half years: frequency * 2 * time
MaxMonths == 3          \* months inputs are 0 .. MaxMonths
MaxEngineCalls == 1     \* calls per behaviour when the inputs range widely
MaxSimCalls == 2        \* calls per behaviour of the history specification
MaxClock == 1           \* the clock reads 0 .. MaxClock
MaxPending == 2         \* concurrent get_progress calls in flight
MaxProgCalls == 3       \* progress/quiz calls per concurrent behaviour
MaxSeqCalls == 3        \* progress/quiz calls per sequential behaviour
MaxGenCalls == 2        \* generate_lesson calls per behaviour

(***************************************************************************)
(* Exact rational arithmetic.                                              *)
(***************************************************************************)
Abs(i) == IF i < 0 THEN -i ELSE i

RECURSIVE GCD(_, _)
GCD(a, b) == IF b = 0 THEN a ELSE GCD(b, a % b)

Rat(n, d) ==
    LET s == IF d < 0 THEN -1 ELSE 1
        g == GCD(Abs(n), Abs(d))
    IN  <<(s * n) \div g, (s * d) \div g>>

Num(i) == <<i, 1>>

RAdd(x, y) == Rat(x[1] * y[2] + y[1] * x[2], x[2] * y[2])
RNeg(x) == <<-x[1], x[2]>>
RSub(x, y) == RAdd(x, RNeg(y))
RMul(x, y) ==
    LET g1 == GCD(Abs(x[1]), y[2])
        g2 == GCD(Abs(y[1]), x[2])
    IN  <<(x[1] \div g1) * (y[1] \div g2), (x[2] \div g2) * (y[2] \div g1)>>
RIsZero(x) == x[1] = 0
\* x / y for y # 0; the callers test the divisor first, as Python raises
\* ZeroDivisionError there.
RDiv(x, y) == RMul(x, IF y[1] < 0 THEN <<-y[2], -y[1]>> ELSE <<y[2], y[1]>>)
RLt(x, y) == x[1] * y[2] < y[1] * x[2]
RLe(x, y) == x[1] * y[2] <= y[1] * x[2]
RGt(x, y) == RLt(y, x)
RGe(x, y) == RLe(y, x)

RECURSIVE RPowInt(_, _)
RPowInt(x, k) == IF k = 0 THEN Num(1) ELSE RMul(x, RPowInt(x, k - 1))

ISqrt(n) == CHOOSE s \in 0..n : s * s <= n /\ n < (s + 1) * (s + 1)
IsSquare(x) == /\ x[1] >= 0
               /\ ISqrt(x[1]) * ISqrt(x[1]) = x[1]
               /\ ISqrt(x[2]) * ISqrt(x[2]) = x[2]
RSqrt(x) == <<ISqrt(x[1]), ISqrt(x[2])>>

\* x ** e for x >= 0 and an exponent e >= 0 that is a whole or a half number;
\* a half exponent needs IsSquare(x) (see Representable).
RPow(x, e) ==
    IF e[2] = 1 THEN RPowInt(x, e[1]) ELSE RPowInt(RSqrt(x), e[1])

\* round(x, 2): the nearest multiple of 1/100, ties to the even one.
Round2(x) ==
    LET whole == x[1] \div x[2]
        frac  == x[1] % x[2]
        c     == (100 * frac) \div x[2]
        r     == (100 * frac) % x[2]
        cents == 100 * whole + c
        up    == \/ 2 * r > x[2]
                 \/ (2 * r = x[2] /\ cents % 2 = 1)
    IN  Rat(IF up THEN cents + 1 ELSE cents, 100)

(***************************************************************************)
(* The simulation engine: calculate_simulation's five branches.            *)
(* inputs maps input names to numbers; a name may be absent.               *)
(***************************************************************************)
EmptyMap == <<>>

\* inputs.get(key, default)
Get(inputs, key, default) ==
    IF key \in DOMAIN inputs THEN inputs[key] ELSE default

DefaultFrequency == 12

\* The outcome of the calculation: a result mapping, or the exception that
\* leaves the handler before it stores or returns anything.
Ok(result) == [status |-> "ok", result |-> result]
ZeroDivisionError == [status |-> "error", result |-> EmptyMap]

\* compound_interest with the exponent time in place of frequency * time.
compound_interest_yearly(inputs) ==
    LET principal == Get(inputs, "principal", Num(0))
        rate      == RDiv(Get(inputs, "rate", Num(0)), Num(100))
        time      == Get(inputs, "time", Num(0))
        frequency == Get(inputs, "frequency", Num(DefaultFrequency))
        amount    == RMul(principal,
                          RPow(RAdd(Num(1), RDiv(rate, frequency)), time))
        interest  == RSub(amount, principal)
    IN  IF RIsZero(frequency) THEN ZeroDivisionError
        ELSE Ok([final_amount |-> Round2(amount),
                 interest_earned |-> Round2(interest),
                 principal |-> principal,
                 total_return_percentage |->
                     IF RGt(principal, Num(0))
                     THEN Round2(RMul(RDiv(interest, principal), Num(100)))
                     ELSE Num(0)])

compound_interest(inputs) ==
    LET principal == Get(inputs, "principal", Num(0))
        rate      == RDiv(Get(inputs, "rate", Num(0)), Num(100))
        time      == Get(inputs, "time", Num(0))
        frequency == Get(inputs, "frequency", Num(DefaultFrequency))
        amount    == RMul(principal,
                          RPow(RAdd(Num(1), RDiv(rate, frequency)),
                               RMul(frequency, time)))
        interest  == RSub(amount, principal)
    IN  IF RIsZero(frequency) THEN ZeroDivisionError
        ELSE Ok([final_amount |-> Round2(amount),
                 interest_earned |-> Round2(interest),
                 principal |-> principal,
                 total_return_percentage |->
                     IF RGt(principal, Num(0))
                     THEN Round2(RMul(RDiv(interest, principal), Num(100)))
                     ELSE Num(0)])

simple_interest(inputs) ==
    LET principal == Get(inputs, "principal", Num(0))
        rate      == RDiv(Get(inputs, "rate", Num(0)), Num(100))
        time      == Get(inputs, "time", Num(0))
        interest  == RMul(RMul(principal, rate), time)
        amount    == RAdd(principal, interest)
    IN  Ok([final_amount |-> Round2(amount),
            interest_earned |-> Round2(interest),
            principal |-> principal])

\* The emi of the branch rate > 0, and whether its divisor is zero.
EmiDivisor(rate, months) == RSub(RPow(RAdd(Num(1), rate), months), Num(1))
EmiAnnuity(principal, rate, months) ==
    RDiv(RMul(RMul(principal, rate), RPow(RAdd(Num(1), rate), months)),
         EmiDivisor(rate, months))

emi_calculator(inputs) ==
    LET principal == Get(inputs, "principal", Num(0))
        rate      == RDiv(RDiv(Get(inputs, "rate", Num(0)), Num(100)), Num(12))
        months    == Get(inputs, "months", Num(0))
        emi       == IF RGt(rate, Num(0))
                     THEN EmiAnnuity(principal, rate, months)
                     ELSE IF RGt(months, Num(0)) THEN RDiv(principal, months)
                          ELSE Num(0)
        total_payment  == RMul(emi, months)
        total_interest == RSub(total_payment, principal)
    IN  IF RGt(rate, Num(0)) /\ RIsZero(EmiDivisor(rate, months))
        THEN ZeroDivisionError
        ELSE Ok([emi |-> Round2(emi),
                 total_payment |-> Round2(total_payment),
                 total_interest |-> Round2(total_interest),
                 principal |-> principal])

sip_calculator(inputs) ==
    LET monthly_investment == Get(inputs, "monthly_investment", Num(0))
        rate   == RDiv(RDiv(Get(inputs, "rate", Num(0)), Num(100)), Num(12))
        months == Get(inputs, "months", Num(0))
        future_value ==
            IF RGt(rate, Num(0))
            THEN RMul(RMul(monthly_investment,
                           RDiv(RSub(RPow(RAdd(Num(1), rate), months), Num(1)),
                                rate)),
                      RAdd(Num(1), rate))
            ELSE RMul(monthly_investment, months)
        total_invested == RMul(monthly_investment, months)
        returns == RSub(future_value, total_invested)
    IN  Ok([future_value |-> Round2(future_value),
            total_invested |-> Round2(total_invested),
            returns |-> Round2(returns),
            return_percentage |->
                IF RGt(total_invested, Num(0))
                THEN Round2(RMul(RDiv(returns, total_invested), Num(100)))
                ELSE Num(0)])

\* sum(expenses.values())
RECURSIVE SumValues(_, _)
SumValues(expenses, keys) ==
    IF keys = {} THEN Num(0)
    ELSE LET k == CHOOSE x \in keys : TRUE
         IN  RAdd(expenses[k], SumValues(expenses, keys \ {k}))

budget_builder(inputs) ==
    LET income   == Get(inputs, "income", Num(0))
        expenses == Get(inputs, "expenses", EmptyMap)
        total_expenses == SumValues(expenses, DOMAIN expenses)
        savings  == RSub(income, total_expenses)
        savings_rate == IF RGt(income, Num(0))
                        THEN RMul(RDiv(savings, income), Num(100))
                        ELSE Num(0)
    IN  Ok([income |-> income,
            total_expenses |-> Round2(total_expenses),
            savings |-> Round2(savings),
            savings_rate |-> Round2(savings_rate),
            status |-> IF RGe(savings, Num(0)) THEN "surplus" ELSE "deficit"])

\* The chain with its last branch taken for every other simulation_type.
Compute_else_budget(sim_type, inputs) ==
    IF sim_type = "compound_interest" THEN compound_interest(inputs)
    ELSE IF sim_type = "simple_interest" THEN simple_interest(inputs)
    ELSE IF sim_type = "emi_calculator" THEN emi_calculator(inputs)
    ELSE IF sim_type = "sip_calculator" THEN sip_calculator(inputs)
    ELSE budget_builder(inputs)

\* The if/elif chain of calculate_simulation; result stays {} for any other
\* simulation_type.
Compute(sim_type, inputs) ==
    IF sim_type = "compound_interest" THEN compound_interest(inputs)
    ELSE IF sim_type = "simple_interest" THEN simple_interest(inputs)
    ELSE IF sim_type = "emi_calculator" THEN emi_calculator(inputs)
    ELSE IF sim_type = "sip_calculator" THEN sip_calculator(inputs)
    ELSE IF sim_type = "budget_builder" THEN budget_builder(inputs)
    ELSE Ok(EmptyMap)

NoCall == [simulation_type |-> "", inputs |-> EmptyMap, status |-> "none",
           outputs |-> EmptyMap]

\* POST /simulations/calculate.  An exception in the calculation leaves the
\* handler before insert_one; otherwise the entry is stored and the result
\* returned.
calculate_simulation(simulation) ==
    LET sim_type == simulation.simulation_type
        inputs   == simulation.inputs
        out      == Compute(sim_type, inputs)
    IN  /\ simCalls' = simCalls + 1
        /\ simCall' = [simulation_type |-> sim_type, inputs |-> inputs,
                       status |-> out.status, outputs |-> out.result]
        /\ IF out.status = "ok"
           THEN \E t \in now..MaxClock :
                  /\ now' = t
                  /\ simulations' = Append(simulations,
                        [user_id |-> "default_user",
                         simulation_type |-> sim_type,
                         inputs |-> inputs,
                         outputs |-> out.result,
                         created_at |-> t])
           ELSE UNCHANGED <<simulations, now>>
        /\ UNCHANGED <<progVars, lessonVars>>

(***************************************************************************)
(* The requests the simulation specifications draw from.                   *)
(***************************************************************************)
Principals == {Num(0), Num(1000)}
Rates == {Num(0), Num(300), Num(800)}
Times == {Rat(h, 2) : h \in 0..MaxHalfYears}
Frequencies == {Num(0), Num(1), Num(2)}
Months == {Num(m) : m \in 0..MaxMonths}
ExpenseMaps == {EmptyMap, [rent |-> Num(400)],
                [rent |-> Num(400), food |-> Num(700)]}

\* The compound_interest inputs whose power is a rational the model can hold:
\* at most MaxPeriods half-year periods, and a square base under a half
\* exponent.
Representable(inputs) ==
    LET rate      == RDiv(Get(inputs, "rate", Num(0)), Num(100))
        time      == Get(inputs, "time", Num(0))
        frequency == Get(inputs, "frequency", Num(DefaultFrequency))
    IN  \/ RIsZero(frequency)
        \/ /\ RLe(RMul(Num(2), RMul(frequency, time)), Num(MaxPeriods))
           /\ \/ RMul(frequency, time)[2] = 1
              \/ IsSquare(RAdd(Num(1), RDiv(rate, frequency)))

CompoundInputs ==
    {i \in [principal : Principals, rate : Rates, time : Times,
            frequency : Frequencies]
           \cup [principal : Principals, rate : Rates, time : Times] :
        Representable(i)}

EngineRequests ==
    [simulation_type : {"compound_interest"}, inputs : CompoundInputs]
    \cup [simulation_type : {"simple_interest"},
          inputs : [principal : Principals, rate : Rates, time : Times]]
    \cup [simulation_type : {"emi_calculator"},
          inputs : [principal : Principals, rate : Rates, months : Months]]
    \cup [simulation_type : {"sip_calculator"},
          inputs : [monthly_investment : Principals, rate : Rates,
                    months : Months]]
    \cup [simulation_type : {"budget_builder"},
          inputs : [income : Principals, expenses : ExpenseMaps]]
    \cup [simulation_type : {"compound_interest", "simple_interest",
                             "emi_calculator", "sip_calculator",
                             "budget_builder", "retirement_planner"},
          inputs : {EmptyMap}]

SimRequests ==
    { [simulation_type |-> "compound_interest",
       inputs |-> [principal |-> Num(1000), rate |-> Num(300),
                   time |-> Num(1), frequency |-> Num(2)]],
      [simulation_type |-> "compound_interest",
       inputs |-> [principal |-> Num(1000), rate |-> Num(300),
                   time |-> Num(1), frequency |-> Num(0)]],
      [simulation_type |-> "simple_interest",
       inputs |-> [principal |-> Num(1000), rate |-> Num(300),
                   time |-> Num(1)]],
      [simulation_type |-> "emi_calculator",
       inputs |-> [principal |-> Num(1000), rate |-> Num(0),
                   months |-> Num(0)]],
      [simulation_type |-> "emi_calculator",
       inputs |-> [principal |-> Num(1000), rate |-> Num(300),
                   months |-> Num(0)]],
      [simulation_type |-> "sip_calculator",
       inputs |-> [monthly_investment |-> Num(1000), rate |-> Num(300),
                   months |-> Num(2)]],
      [simulation_type |-> "budget_builder",
       inputs |-> [income |-> Num(0), expenses |-> [rent |-> Num(400)]]],
      [simulation_type |-> "budget_builder", inputs |-> EmptyMap],
      [simulation_type |-> "retirement_planner",
       inputs |-> [principal |-> Num(1000)]],
      [simulation_type |-> "retirement_planner", inputs |-> EmptyMap] }

(***************************************************************************)
(* The progress store.  A progress document maps field names to values; a  *)
(* field may be absent.  A lesson id is the sequence of the parts its       *)
(* string has between dots: "l1" is <<"l1">> and "l1.q" is <<"l1", "q">>.   *)
(* quiz_scores is a document of documents: here, the map from each path    *)
(* that ends in a number to that number.                                   *)
(***************************************************************************)
LessonIds == {<<"l1">>, <<"l2">>, <<"l1", "q">>}
Scores == {40, 90}

\* {"$set": {field: value}} on one document
SetField(doc, field, value) ==
    [f \in DOMAIN doc \cup {field} |-> IF f = field THEN value ELSE doc[f]]

\* {"$push": {array: value}} in place of $addToSet
AddToSet_push(array, value) == Append(array, value)

\* {"$addToSet": {array: value}} on the array's value
AddToSet(array, value) ==
    IF \E i \in DOMAIN array : array[i] = value THEN array
    ELSE Append(array, value)

IsPrefix(p, q) == Len(p) <= Len(q) /\ SubSeq(q, 1, Len(p)) = p

\* {"$set": {"quiz_scores.<lesson_id>": score}} cannot descend through a
\* number: the store rejects the update with a write error.
PathBlocked(quiz_scores, path) ==
    \E p \in DOMAIN quiz_scores : p # path /\ IsPrefix(p, path)

\* The same $set where it applies: the value at the path, and all below it,
\* is replaced by the score.
SetPath(quiz_scores, path, score) ==
    LET kept == {p \in DOMAIN quiz_scores : ~IsPrefix(path, p)}
    IN  [p \in kept \cup {path} |->
            IF p = path THEN score ELSE quiz_scores[p]]

DefaultProgress(t) ==
    [user_id |-> "default_user", completed_lessons |-> <<>>,
     quiz_scores |-> EmptyMap, simulations_completed |-> <<>>,
     last_active |-> t]

Returned(op, lesson_id, score, status) ==
    Append(calls, [op |-> op, lesson_id |-> lesson_id, score |-> score,
                   status |-> status])

\* GET /progress up to the end of find_one: the document found is returned;
\* with none found the call goes on to insert_one.
get_progress_find ==
    /\ IF progress # <<>>
       THEN /\ \E i \in DOMAIN progress : progCall' = progress[i]
            /\ calls' = Returned("get_progress", <<>>, 0, "found")
            /\ UNCHANGED pending
       ELSE /\ pending < MaxPending
            /\ pending' = pending + 1
            /\ UNCHANGED <<progCall, calls>>
    /\ UNCHANGED <<progress, now, simVars, lessonVars>>

\* GET /progress from its find_one that found nothing: the default record
\* is inserted and returned.
get_progress_insert ==
    /\ pending > 0
    /\ pending' = pending - 1
    /\ \E t \in now..MaxClock :
         /\ now' = t
         /\ progress' = Append(progress, DefaultProgress(t))
         /\ progCall' = DefaultProgress(t)
    /\ calls' = Returned("get_progress", <<>>, 0, "created")
    /\ UNCHANGED <<simVars, lessonVars>>

\* GET /progress with no other call between its find_one and insert_one.
get_progress ==
    /\ pending = 0
    /\ IF progress # <<>>
       THEN /\ \E i \in DOMAIN progress : progCall' = progress[i]
            /\ calls' = Returned("get_progress", <<>>, 0, "found")
            /\ UNCHANGED <<progress, now>>
       ELSE /\ \E t \in now..MaxClock :
                 /\ now' = t
                 /\ progress' = Append(progress, DefaultProgress(t))
                 /\ progCall' = DefaultProgress(t)
            /\ calls' = Returned("get_progress", <<>>, 0, "created")
    /\ UNCHANGED <<pending, simVars, lessonVars>>

\* POST /progress/complete-lesson/{lesson_id}: one update_one with upsert.
complete_lesson(lesson_id) ==
    /\ \E t \in now..MaxClock :
         /\ now' = t
         /\ IF progress = <<>>
            THEN progress' = <<[user_id |-> "default_user",
                                completed_lessons |-> <<lesson_id>>,
                                last_active |-> t]>>
            ELSE \E i \in DOMAIN progress :
                   progress' = [progress EXCEPT ![i] =
                       SetField(
                           SetField(@, "completed_lessons",
                               AddToSet(Get(@, "completed_lessons", <<>>),
                                        lesson_id)),
                           "last_active", t)]
    /\ progCall' = [success |-> TRUE, lesson_id |-> lesson_id]
    /\ calls' = Returned("complete_lesson", lesson_id, 0, "ok")
    /\ UNCHANGED <<pending, simVars, lessonVars>>

\* POST /quiz/submit: one update_one with upsert; a write error leaves the
\* handler as an exception.
submit_quiz(lesson_id, score) ==
    /\ \E t \in now..MaxClock :
         /\ now' = t
         /\ IF progress = <<>>
            THEN /\ progress' = <<[user_id |-> "default_user",
                                   quiz_scores |->
                                       SetPath(EmptyMap, lesson_id, score),
                                   last_active |-> t]>>
                 /\ progCall' = [score |-> score, lesson_id |-> lesson_id]
                 /\ calls' = Returned("submit_quiz", lesson_id, score, "ok")
            ELSE \E i \in DOMAIN progress :
                   LET quiz_scores ==
                           Get(progress[i], "quiz_scores", EmptyMap)
                   IN  IF PathBlocked(quiz_scores, lesson_id)
                       THEN /\ UNCHANGED progress
                            /\ progCall' = [error |-> "WriteError"]
                            /\ calls' = Returned("submit_quiz", lesson_id,
                                                 score, "error")
                       ELSE /\ progress' = [progress EXCEPT ![i] =
                                   SetField(
                                       SetField(@, "quiz_scores",
                                           SetPath(quiz_scores, lesson_id,
                                                   score)),
                                       "last_active", t)]
                            /\ progCall' =
                                   [score |-> score, lesson_id |-> lesson_id]
                            /\ calls' = Returned("submit_quiz", lesson_id,
                                                 score, "ok")
    /\ UNCHANGED <<pending, simVars, lessonVars>>

(***************************************************************************)
(* The lesson store and generate_lesson.  A string that the code slices,   *)
(* lowers or parses is the sequence of its characters.                     *)
(***************************************************************************)
ContentLimit == 400

\* response[:400]
Take(text, n) == SubSeq(text, 1, IF Len(text) < n THEN Len(text) ELSE n)

\* str.lower() on the characters the topics are written in
LowerChar(c) == CASE c = "A" -> "a" [] c = "B" -> "b" [] OTHER -> c
Lower(text) == [i \in DOMAIN text |-> LowerChar(text[i])]

\* str.replace(' ', '_')
ReplaceSpaces(text) ==
    [i \in DOMAIN text |-> IF text[i] = " " THEN "_" ELSE text[i]]

\* f"{request.module_id}_{request.topic.lower().replace(' ', '_')}"
LessonId(module_id, topic) ==
    module_id \o <<"_">> \o ReplaceSpaces(Lower(topic))

\* The texts the generation collaborator answers with.
ProseText == <<"S", "a", "v", "e", " ", "m", "o", "r", "e", ".">>
LongProseText == [i \in 1..(ContentLimit + 2) |-> "x"]
ArrayText == <<"[", "]">>
EmptyObjectText == <<"{", "}">>
PartialObjectText ==
    <<"{", "\"", "t", "i", "t", "l", "e", "\"", ":", "\"", "T", "\"",
      "}">>
FullObjectText ==
    <<"{", "\"", "t", "i", "t", "l", "e", "\"", ":", "\"", "T", "\"",
      ",", "\"", "c", "o", "n", "t", "e", "n", "t", "\"", ":", "\"",
      "c", "\"", ",", "\"", "k", "e", "y", "_", "p", "o", "i", "n",
      "t", "s", "\"", ":", "[", "\"", "k", "\"", "]", ",", "\"", "r",
      "e", "a", "l", "_", "e", "x", "a", "m", "p", "l", "e", "\"", ":",
      "\"", "r", "\"", ",", "\"", "d", "a", "i", "l", "y", "_", "t",
      "i", "p", "\"", ":", "\"", "d", "\"", "}">>

ResponseTexts == {ProseText, LongProseText, ArrayText, EmptyObjectText,
                  PartialObjectText, FullObjectText}

\* json.loads on those texts: the value parsed, or the exception.
JsonLoads(text) ==
    CASE text = ArrayText -> [kind |-> "list", value |-> EmptyMap]
      [] text = EmptyObjectText -> [kind |-> "dict", value |-> EmptyMap]
      [] text = PartialObjectText ->
            [kind |-> "dict", value |-> [title |-> <<"T">>]]
      [] text = FullObjectText ->
            [kind |-> "dict",
             value |-> [title |-> <<"T">>, content |-> <<"c">>,
                        key_points |-> <<"k">>, real_example |-> "r",
                        daily_tip |-> "d"]]
      [] OTHER -> [kind |-> "JSONDecodeError", value |-> EmptyMap]

\* What the call of the collaborator comes to: it fails (no API key, or
\* send_message raises), or it answers with a text.
Failure == [answered |-> FALSE, text |-> <<>>]
Outcomes == {Failure} \cup [answered : {TRUE}, text : ResponseTexts]

\* generate_lesson_content: the parsed value, the fallback record for a text
\* json.loads rejects, or HTTPException(500) when the collaborator fails.
generate_lesson_content(topic, outcome) ==
    IF ~outcome.answered
    THEN [status |-> "HTTPException", kind |-> "", value |-> EmptyMap]
    ELSE LET parsed == JsonLoads(outcome.text)
         IN  IF parsed.kind = "JSONDecodeError"
             THEN [status |-> "ok", kind |-> "dict",
                   value |->
                     [title |-> topic,
                      content |-> Take(outcome.text, ContentLimit),
                      key_points |-> <<"Understand the basics",
                                       "Apply in real life",
                                       "Track progress">>,
                      real_example |->
                          "Example scenario based on this concept.",
                      daily_tip |-> "Start small and stay consistent."]]
             ELSE [status |-> "ok", kind |-> parsed.kind,
                   value |-> parsed.value]

\* The lesson object generate_lesson builds from a dict.
BuildLesson(request, lesson_content, t) ==
    [id |-> LessonId(request.module_id, request.topic),
     module_id |-> request.module_id,
     title |-> Get(lesson_content, "title", request.topic),
     content |-> Get(lesson_content, "content", <<>>),
     duration_minutes |-> 3,
     key_points |-> Get(lesson_content, "key_points", <<>>),
     real_example |-> Get(lesson_content, "real_example", ""),
     quiz_questions |-> <<>>,
     daily_tip |-> Get(lesson_content, "daily_tip", ""),
     order |-> 1,
     created_at |-> t]

\* {"$set": lesson} on one document: the fields of lesson are set, the
\* document's other fields stay.
SetFields(doc, lesson) ==
    [f \in DOMAIN doc \cup DOMAIN lesson |->
        IF f \in DOMAIN lesson THEN lesson[f] ELSE doc[f]]

NoGenCall == [n |-> 0, request |-> EmptyMap, outcome |-> Failure,
              status |-> "none", lesson |-> EmptyMap]

\* POST /lessons/generate.  lesson_content.get raises AttributeError when
\* the parsed value is no dict; update_one with upsert sets the lesson's
\* fields on a record with its id, or inserts the lesson.
generate_lesson(request, outcome) ==
    LET lesson_content == generate_lesson_content(request.topic, outcome)
        lesson_id == LessonId(request.module_id, request.topic)
        matches == {i \in DOMAIN lessons : lessons[i].id = lesson_id}
    IN  /\ IF lesson_content.status # "ok"
           THEN /\ genCall' = [n |-> genCall.n + 1, request |-> request,
                               outcome |-> outcome,
                               status |-> "HTTPException",
                               lesson |-> EmptyMap]
                /\ UNCHANGED <<lessons, now>>
           ELSE IF lesson_content.kind # "dict"
           THEN /\ genCall' = [n |-> genCall.n + 1, request |-> request,
                               outcome |-> outcome,
                               status |-> "AttributeError",
                               lesson |-> EmptyMap]
                /\ UNCHANGED <<lessons, now>>
           ELSE \E t \in now..MaxClock :
                  LET lesson == BuildLesson(request, lesson_content.value, t)
                  IN  /\ now' = t
                      /\ IF matches = {}
                         THEN lessons' = Append(lessons, lesson)
                         ELSE \E i \in matches :
                                lessons' = [lessons EXCEPT ![i] =
                                               SetFields(@, lesson)]
                      /\ genCall' = [n |-> genCall.n + 1,
                                     request |-> request,
                                     outcome |-> outcome, status |-> "ok",
                                     lesson |-> lesson]
        /\ UNCHANGED <<simVars, progVars>>

ModuleIds == {<<"m">>}
Topics == {<<"A", " ", "b">>, <<"a", "_", "b">>, <<"t">>}
GenRequests == [module_id : ModuleIds, topic : Topics,
                difficulty : {"beginner"}]

\* A lesson of the seed data, with the fields of the Lesson model.
SeededLesson ==
    [id |-> <<"m", "_", "t">>, module_id |-> <<"m">>,
     title |-> <<"S", "e", "e", "d">>, content |-> <<"s">>,
     duration_minutes |-> 5, examples |-> <<"e1">>,
     quiz_questions |-> <<"q1">>, simulation_type |-> "sip_calculator",
     daily_tip |-> "seeded tip", order |-> 2]
SeedStores == {<<>>, <<SeededLesson>>}

(***************************************************************************)
(* Initial state and the specifications.                                   *)
(***************************************************************************)
Init ==
    /\ simulations = <<>>
    /\ simCall = NoCall
    /\ simCalls = 0
    /\ progress = <<>>
    /\ pending = 0
    /\ progCall = <<>>
    /\ calls = <<>>
    /\ lessons = <<>>
    /\ genCall = NoGenCall
    /\ now = 0

\* One calculator call after another, over the wide range of inputs.
EngineNext ==
    \E simulation \in EngineRequests :
        simCalls < MaxEngineCalls /\ calculate_simulation(simulation)
EngineSpec == Init /\ [][EngineNext]_vars

\* Sequences of calls, each of them one of a few representative requests.
SimNext ==
    \E simulation \in SimRequests :
        simCalls < MaxSimCalls /\ calculate_simulation(simulation)
SimSpec == Init /\ [][SimNext]_vars

\* The progress and quiz calls of concurrent clients: a get_progress may be
\* overtaken between its find_one and its insert_one.
ProgressNext ==
    \/ Len(calls) + pending < MaxProgCalls /\ get_progress_find
    \/ get_progress_insert
    \/ \E lesson_id \in LessonIds :
         Len(calls) + pending < MaxProgCalls /\ complete_lesson(lesson_id)
    \/ \E lesson_id \in LessonIds, score \in Scores :
         Len(calls) + pending < MaxProgCalls /\ submit_quiz(lesson_id, score)
ProgressSpec == Init /\ [][ProgressNext]_vars

\* The same calls made one after the other.
ProgressSeqNext ==
    \/ Len(calls) < MaxSeqCalls /\ get_progress
    \/ \E lesson_id \in LessonIds :
         Len(calls) < MaxSeqCalls /\ complete_lesson(lesson_id)
    \/ \E lesson_id \in LessonIds, score \in Scores :
         Len(calls) < MaxSeqCalls /\ submit_quiz(lesson_id, score)
ProgressSeqSpec == Init /\ [][ProgressSeqNext]_vars

\* generate_lesson calls, over a store that is empty or holds a seeded lesson.
SeededInit ==
    /\ simulations = <<>>
    /\ simCall = NoCall
    /\ simCalls = 0
    /\ progress = <<>>
    /\ pending = 0
    /\ progCall = <<>>
    /\ calls = <<>>
    /\ lessons \in SeedStores
    /\ genCall = NoGenCall
    /\ now = 0
LessonNext ==
    \E request \in GenRequests, outcome \in Outcomes :
        genCall.n < MaxGenCalls /\ generate_lesson(request, outcome)
LessonSpec == SeededInit /\ [][LessonNext]_vars

(***************************************************************************)
(* Claims about the simulation engine and its history.                     *)
(***************************************************************************)
RecognizedKinds == {"compound_interest", "simple_interest", "emi_calculator",
                    "sip_calculator", "budget_builder"}

Called == simCall.status # "none"
CalledKind(kind) == Called /\ simCall.simulation_type = kind
In(key) == Get(simCall.inputs, key, Num(0))

\* C1: emi_calculator never raises a division fault: for every principal,
\* every annual rate >= 0 and every months >= 0 the call returns a result;
\* with months = 0 the emi returned is 0, and with rate = 0 and months > 0 it
\* is principal / months.
C1_EmiNeverFaults ==
    (/\ CalledKind("emi_calculator")
     /\ RGe(In("rate"), Num(0))
     /\ RGe(In("months"), Num(0)))
    => /\ simCall.status = "ok"
       /\ RIsZero(In("months")) => simCall.outputs.emi = Num(0)
       /\ (RIsZero(In("rate")) /\ RGt(In("months"), Num(0)))
            => simCall.outputs.emi = Round2(RDiv(In("principal"), In("months")))

\* C2: every invocation of calculate_simulation appends exactly one entry to
\* the simulation history, whatever the calculation does, and leaves the
\* entries already there as they were.
C2_EveryCallLogged ==
    [][simCalls' = simCalls + 1
         => /\ Len(simulations') = Len(simulations) + 1
            /\ SubSeq(simulations', 1, Len(simulations)) = simulations]_vars

C4_UnknownKindLogged ==
    [][(simCalls' = simCalls + 1
        /\ simCall'.simulation_type \notin RecognizedKinds)
         => /\ simCall'.status = "ok"
            /\ simCall'.outputs = EmptyMap
            /\ Len(simulations') = Len(simulations) + 1
            /\ SubSeq(simulations', 1, Len(simulations)) = simulations
            /\ LET entry == simulations'[Len(simulations')]
               IN  /\ entry.simulation_type = simCall'.simulation_type
                   /\ entry.inputs = simCall'.inputs
                   /\ entry.outputs = EmptyMap
                   /\ entry.user_id = "default_user"]_vars

\* An unrecognized kind was called after an earlier call had been logged.
C4_Witness ==
    /\ Called
    /\ simCall.simulation_type \notin RecognizedKinds
    /\ simCall.inputs # EmptyMap
    /\ Len(simulations) = 2
    /\ simulations[2].outputs = EmptyMap
    /\ simulations[1].outputs # EmptyMap

(***************************************************************************)
(* Claims about the progress store.                                        *)
(***************************************************************************)
Completed(doc) == Get(doc, "completed_lessons", <<>>)
Count(array, value) == Cardinality({i \in DOMAIN array : array[i] = value})

\* The score a document holds for a lesson: <<score>>, or <<>> for none.
ScoreAt(doc, lesson_id) ==
    LET quiz_scores == Get(doc, "quiz_scores", EmptyMap)
    IN  IF lesson_id \in DOMAIN quiz_scores THEN <<quiz_scores[lesson_id]>>
        ELSE <<>>

\* This step is the return of a call of the given operation.
Returns(op) ==
    /\ Len(calls') = Len(calls) + 1
    /\ calls'[Len(calls')].op = op
LastCall == calls[Len(calls)]

\* The record before and after a step of the sequential specification.
Before == IF progress = <<>> THEN EmptyMap ELSE progress[1]
After == progress'[1]

\* C5: complete_lesson is idempotent: whatever complete_lesson, submit_quiz
\* and get_progress calls were made, completed_lessons holds each lesson id
\* at most once; it holds a lesson id once complete_lesson has returned for
\* it, and a second complete_lesson for it leaves the list as it was.
C5_CompleteLessonIdempotent ==
    /\ [](\A i \in DOMAIN progress : \A lesson_id \in LessonIds :
            Count(Completed(progress[i]), lesson_id) <= 1)
    /\ [][Returns("complete_lesson")
            => LET lesson_id == calls'[Len(calls')].lesson_id
               IN  /\ Len(progress') = 1
                   /\ Count(Completed(After), lesson_id) = 1
                   /\ Count(Completed(Before), lesson_id) = 1
                        => Completed(After) = Completed(Before)]_vars

\* complete_lesson has returned twice for one lesson, with another lesson
\* completed as well.
C5_Witness ==
    /\ Len(calls) >= 3
    /\ LastCall.op = "complete_lesson"
    /\ \E j \in 1..(Len(calls) - 1) :
         /\ calls[j].op = "complete_lesson"
         /\ calls[j].lesson_id = LastCall.lesson_id
    /\ Len(progress) = 1
    /\ Len(Completed(progress[1])) = 2
    /\ Count(Completed(progress[1]), LastCall.lesson_id) = 1

\* C6: under any interleaving of get_progress, complete_lesson and
\* submit_quiz calls that starts from an empty progress collection, the
\* collection holds at most one record for the user.
C6_AtMostOneRecord ==
    Cardinality({i \in DOMAIN progress :
                    progress[i].user_id = "default_user"}) <= 1

\* The last submit_quiz that has returned for a lesson, 0 for none.
LastSubmit(lesson_id) ==
    LET js == {j \in DOMAIN calls : /\ calls[j].op = "submit_quiz"
                                    /\ calls[j].lesson_id = lesson_id}
    IN  IF js = {} THEN 0 ELSE CHOOSE j \in js : \A k \in js : k <= j

\* C7: no update is lost: a get_progress that starts after complete_lesson
\* has returned for a lesson returns a record whose completed_lessons holds
\* that lesson, and one that starts after submit_quiz has returned for a
\* lesson, with no later submit_quiz for it, returns a record that holds
\* that score for the lesson.
C7_NoLostUpdate ==
    [][(Returns("get_progress") /\ calls'[Len(calls')].status = "found")
         => /\ \A j \in DOMAIN calls :
                 calls[j].op = "complete_lesson"
                   => Count(Completed(progCall'), calls[j].lesson_id) = 1
            /\ \A lesson_id \in LessonIds :
                 LET j == LastSubmit(lesson_id)
                 IN  (j # 0 /\ calls[j].status = "ok")
                       => ScoreAt(progCall', lesson_id) = <<calls[j].score>>
       ]_vars

\* C8: submit_quiz overwrites the score of its lesson, so that the stored
\* score of a lesson is that of the most recent submit_quiz for it, and it
\* leaves completed_lessons, simulations_completed and the score of every
\* other lesson as they were.
C8_SubmitQuizFrame ==
    [][Returns("submit_quiz")
         => LET call == calls'[Len(calls')]
            IN  /\ ScoreAt(After, call.lesson_id) = <<call.score>>
                /\ Completed(After) = Completed(Before)
                /\ Get(After, "simulations_completed", <<>>)
                     = Get(Before, "simulations_completed", <<>>)
                /\ \A other \in LessonIds \ {call.lesson_id} :
                     ScoreAt(After, other) = ScoreAt(Before, other)]_vars

(***************************************************************************)
(* Claims about generate_lesson.                                           *)
(***************************************************************************)
Generates == genCall'.n = genCall.n + 1
StoredWith(store, id) == {i \in DOMAIN store : store[i].id = id}

\* C9: generate_lesson is an upsert by a deterministic id: two calls with the
\* same module_id and topic yield the same lesson id, the store then holds
\* exactly one record with that id, and that record is the second call's
\* lesson, no field value of the record it replaces (generated or seeded)
\* being left.
C9_GenerateReplaces ==
    [][(Generates /\ genCall'.status = "ok")
         => LET lesson == genCall'.lesson
            IN  /\ (/\ genCall.status = "ok"
                    /\ genCall.request.module_id = genCall'.request.module_id
                    /\ genCall.request.topic = genCall'.request.topic)
                     => lesson.id = genCall.lesson.id
                /\ Cardinality(StoredWith(lessons', lesson.id)) = 1
                /\ \A i \in StoredWith(lessons', lesson.id) :
                     /\ DOMAIN lessons'[i] = DOMAIN lesson
                     /\ lessons'[i] = lesson]_vars

LessonFields == {"title", "content", "key_points", "real_example",
                 "daily_tip"}

\* The text parses as an object that has the five lesson fields.
WellFormed(text) ==
    /\ JsonLoads(text).kind = "dict"
    /\ LessonFields \subseteq DOMAIN JsonLoads(text).value

\* C10: malformed generation output raises no error: for every text of the
\* collaborator that does not parse as an object with the five lesson fields,
\* generate_lesson succeeds and stores the fallback lesson (title = topic,
\* content = the first 400 characters of the text, the placeholder
\* key_points, real_example and daily_tip); when the call of the collaborator
\* fails, an error is reported and the store is left as it was.
C10_MalformedOutputFallsBack ==
    [][Generates
         => LET outcome == genCall'.outcome
                request == genCall'.request
                id      == LessonId(request.module_id, request.topic)
            IN  /\ (outcome.answered /\ ~WellFormed(outcome.text))
                     => /\ genCall'.status = "ok"
                        /\ \E i \in StoredWith(lessons', id) :
                             /\ lessons'[i].title = request.topic
                             /\ lessons'[i].content =
                                    Take(outcome.text, ContentLimit)
                             /\ lessons'[i].key_points =
                                    <<"Understand the basics",
                                      "Apply in real life", "Track progress">>
                             /\ lessons'[i].real_example =
                                    "Example scenario based on this concept."
                             /\ lessons'[i].daily_tip =
                                    "Start small and stay consistent."
                /\ ~outcome.answered
                     => /\ genCall'.status # "ok"
                        /\ lessons' = lessons]_vars

====
